---- MODULE Spec2Model ----
(***************************************************************************)
(* Model of the generation pipeline of SUNSTUDIO:                          *)
(*   - retryWithBackoff and getErrorMessage (services/geminiService.ts)    *)
(*   - the five generation strategies and getGenerationStrategy            *)
(*     (the video strategy module)                                         *)
(*   - generateVideo's fan-out, join and still-image fallback              *)
(*   - the entry points' use of the API key (getClient)                    *)
(*   - urlToBase64 and extractLastFrame                                    *)
(*   - combineBase64Chunks (the WAV container)                             *)
(*                                                                         *)
(* Strings are sequences of one-character strings where the code inspects  *)
(* their content (error messages), and sequences of opaque tokens where    *)
(* the code only concatenates them (prompts).                              *)
(***************************************************************************)
EXTENDS Integers, Sequences, FiniteSets, TLC

VARIABLES
    \* ---- retryWithBackoff ----
    rPc,          \* position inside retryWithBackoff
    rMaxRetries,  \* parameter maxRetries
    rBaseDelay,   \* parameter baseDelay
    rScript,      \* what operation() does on its successive invocations
    rI,           \* loop variable i
    rLastError,   \* local lastError
    rCalls,       \* number of times operation() has been invoked
    rWaits,       \* the delays passed to wait(), in order
    rOutcome,     \* how the returned promise settled
    \* ---- generation strategies ----
    sNode,        \* the node handed to getGenerationStrategy
    sInputs,      \* its resolved upstream inputs
    sPrompt,      \* basePrompt
    sPc,          \* position inside the dispatcher / the running strategy
    sRuns,        \* the strategies that have been started, in order
    sCalls,       \* auxiliary calls made so far, in order
    sLoc,         \* the running strategy's locals
    sResult,      \* how the promise of getGenerationStrategy settled
    \* ---- generateVideo ----
    vPc,            \* position inside generateVideo
    vCount,         \* options.count (0 = not given)
    vSlots,         \* the fan-out operations, in launch order
    vError,         \* e of the catch at line 405
    vFallbackCalls, \* number of calls of the still-image fallback
    vOutcome,       \* how the promise of generateVideo settled
    vOutOfOrder,    \* an operation settled before one that was launched earlier
    \* ---- entry points and the API key ----
    cKey,           \* process.env.API_KEY
    cEntry,         \* the entry point that is called
    cDataUri,       \* whether its media argument is a data: URI
    cPc,            \* position inside the entry point
    cRemoteCalls,   \* number of remote calls issued
    cOutcome,       \* how the entry point's promise settled
    \* ---- urlToBase64 ----
    uUrl,           \* parameter url
    uPc,            \* position inside urlToBase64
    uStatus,        \* status of the response that fetch delivered (0 = none)
    uFailed,        \* the step that failed, if any
    uOutcome,       \* how the promise of urlToBase64 settled
    \* ---- extractLastFrame ----
    eSrc,           \* parameter videoSrc
    eDuration,      \* <<video.duration in milliseconds>>, <<>> before the metadata
    eCurrentTime,   \* video.currentTime in milliseconds
    eSeeking,       \* a seek is in progress
    eErrors,        \* number of error events delivered
    eReleased,      \* video.remove() has been called
    eOutcome,       \* how the promise of extractLastFrame settled
    \* ---- combineBase64Chunks ----
    wPcm,           \* the PCM byte arrays that the chunks encode
    wChunks,        \* parameter chunks: base64 strings
    wRate,          \* parameter sampleRate
    wPc,            \* position: before or after the call
    wOut            \* the returned data URI

retryVars == <<rPc, rMaxRetries, rBaseDelay, rScript, rI, rLastError, rCalls, rWaits, rOutcome>>

stratVars == <<sNode, sInputs, sPrompt, sPc, sRuns, sCalls, sLoc, sResult>>

videoVars == <<vPc, vCount, vSlots, vError, vFallbackCalls, vOutcome, vOutOfOrder>>

credVars == <<cKey, cEntry, cDataUri, cPc, cRemoteCalls, cOutcome>>

urlVars == <<uUrl, uPc, uStatus, uFailed, uOutcome>>

frameVars == <<eSrc, eDuration, eCurrentTime, eSeeking, eErrors, eReleased, eOutcome>>

mediaVars == <<urlVars, frameVars>>

wavVars == <<wPcm, wChunks, wRate, wPc, wOut>>

extraVars == <<credVars, mediaVars, wavVars>>

credRest == <<retryVars, stratVars, videoVars, mediaVars, wavVars>>

mediaRest == <<retryVars, stratVars, videoVars, credVars, wavVars>>

wavRest == <<retryVars, stratVars, videoVars, credVars, mediaVars>>

vars == <<retryVars, stratVars, videoVars, extraVars>>

\* ------------------------------------------------------------------------
\* Bounds of the model
\* ------------------------------------------------------------------------
MaxRetriesBound == 3     \* maxRetries ranges over 0..MaxRetriesBound
MaxScript == 3           \* length of the scripted behaviour of operation()

\* ------------------------------------------------------------------------
\* Program constants
\* ------------------------------------------------------------------------
DefaultMaxRetries == 3
DefaultBaseDelay == 2000
StatusOverloaded == 503
StatusRateLimited == 429

\* ------------------------------------------------------------------------
\* Strings with content: sequences of characters
\* ------------------------------------------------------------------------
Undefined == "undefined"

\* String.prototype.toLowerCase on the letters the samples use
LowerChar(c) ==
    CASE c = "O" -> "o"
      [] c = "V" -> "v"
      [] c = "E" -> "e"
      [] c = "R" -> "r"
      [] c = "L" -> "l"
      [] c = "A" -> "a"
      [] c = "D" -> "d"
      [] c = "H" -> "h"
      [] c = "T" -> "t"
      [] c = "P" -> "p"
      [] OTHER -> c

ToLowerCase(s) == [k \in 1..Len(s) |-> LowerChar(s[k])]

\* String.prototype.includes
Includes(s, sub) ==
    \E k \in 0..(Len(s) - Len(sub)) : SubSeq(s, k + 1, k + Len(sub)) = sub

DigitChar(d) == CASE d = 0 -> "0" [] d = 1 -> "1" [] d = 2 -> "2" [] d = 3 -> "3"
                  [] d = 4 -> "4" [] d = 5 -> "5" [] d = 6 -> "6" [] d = 7 -> "7"
                  [] d = 8 -> "8" [] d = 9 -> "9"

RECURSIVE NumberToString(_)
NumberToString(n) ==
    IF n < 10 THEN <<DigitChar(n)>>
    ELSE NumberToString(n \div 10) \o <<DigitChar(n % 10)>>

\* ------------------------------------------------------------------------
\* Error values.  A thrown value is either a string or an object with
\* optional status, code, message and error.message (0 / <<>> = absent).
\* ------------------------------------------------------------------------
StrOverloadedMixed == <<"O", "v", "e", "r", "L", "O", "A", "D", "E", "D">>
StrOverloaded == <<"o", "v", "e", "r", "l", "o", "a", "d", "e", "d">>
StrHttp503 == <<"H", "T", "T", "P", " ", "5", "0", "3">>
StrBad == <<"b", "a", "d">>
StrDenied == <<"d", "e", "n", "i", "e", "d">>

ErrObject(status, code, message, inner) ==
    [isString |-> FALSE, text |-> <<>>, status |-> status, code |-> code,
     message |-> message, inner |-> inner]

ErrString(text) ==
    [isString |-> TRUE, text |-> text, status |-> 0, code |-> 0,
     message |-> <<>>, inner |-> <<>>]

TransientSamples ==
    { ErrObject(StatusOverloaded, 0, StrBad, <<>>),      \* status 503
      ErrObject(0, StatusRateLimited, <<>>, <<>>),       \* code 429, no message
      ErrObject(0, 0, StrOverloadedMixed, <<>>),         \* message "OverLOADED"
      ErrString(StrHttp503),                             \* thrown string "HTTP 503"
      ErrObject(0, 0, <<>>, StrOverloaded) }             \* error.error.message

PermanentSamples ==
    { ErrObject(400, 0, StrBad, <<>>),
      ErrObject(500, 500, <<>>, <<>>),                   \* message is the JSON text
      ErrString(StrDenied) }

ErrorSamples == TransientSamples \cup PermanentSamples

\* JSON.stringify of an error object that has no message of its own
JsonStringify(error) ==
    <<"{">>
    \o (IF error.status # 0
        THEN <<"s", ":">> \o NumberToString(error.status) ELSE <<>>)
    \o (IF error.code # 0
        THEN <<",", "c", ":">> \o NumberToString(error.code) ELSE <<>>)
    \o <<"}">>

getErrorMessage(error) ==
    IF error.isString THEN error.text
    ELSE IF error.message # <<>> THEN error.message
    ELSE IF error.inner # <<>> THEN error.inner
    ELSE JsonStringify(error)

\* the classification of line 39
IsOverloadedAlways(error) == TRUE

IsOverloaded(error) ==
    LET msg == ToLowerCase(getErrorMessage(error))
    IN  \/ error.status = StatusOverloaded
        \/ error.code = StatusOverloaded
        \/ Includes(msg, StrOverloaded)
        \/ Includes(msg, <<"5", "0", "3">>)
        \/ error.status = StatusRateLimited
        \/ error.code = StatusRateLimited

RECURSIVE Pow2(_)
Pow2(n) == IF n = 0 THEN 1 ELSE 2 * Pow2(n - 1)

\* the delay of line 42
BackoffDelayLinear(baseDelay, i) == baseDelay * (i + 2)

BackoffDelay(baseDelay, i) == baseDelay * Pow2(i)

\* ------------------------------------------------------------------------
\* retryWithBackoff
\* ------------------------------------------------------------------------
Ok == [isOk |-> TRUE]
OperationOutcomes == {Ok} \cup ErrorSamples

RECURSIVE SeqsUpTo(_, _)
SeqsUpTo(S, n) ==
    IF n = 0 THEN {<<>>}
    ELSE LET shorter == SeqsUpTo(S, n - 1)
         IN  shorter \cup {Append(s, x) : s \in {t \in shorter : Len(t) = n - 1}, x \in S}

Scripts == SeqsUpTo(OperationOutcomes, MaxScript) \ {<<>>}

\* what the n-th invocation of operation() does; the script's last entry repeats
ScriptAt(script, n) == script[IF n <= Len(script) THEN n ELSE Len(script)]

NoOutcome == [kind |-> "pending"]
Returned(v) == [kind |-> "returned", value |-> v]
Thrown(e) == [kind |-> "thrown", error |-> e]
SuccessValue == "value"

BaseDelays == {DefaultBaseDelay, 500}

RetryStart ==
    /\ rPc = "loop"
    /\ rMaxRetries \in 0..MaxRetriesBound
    /\ rBaseDelay \in BaseDelays
    /\ rScript \in Scripts
    /\ rI = 0
    /\ rLastError = Undefined
    /\ rCalls = 0
    /\ rWaits = <<>>
    /\ rOutcome = NoOutcome

\* line 33 (loop test true) and line 35: operation() is invoked
RetryInvoke ==
    /\ rPc = "loop"
    /\ rI < rMaxRetries
    /\ rCalls' = rCalls + 1
    /\ rPc' = "await"
    /\ UNCHANGED <<rMaxRetries, rBaseDelay, rScript, rI, rLastError, rWaits, rOutcome>>
    /\ UNCHANGED <<stratVars, videoVars, extraVars>>

\* line 35: the awaited operation fulfils
RetryOperationFulfils ==
    /\ rPc = "await"
    /\ ScriptAt(rScript, rCalls) = Ok
    /\ rOutcome' = Returned(SuccessValue)
    /\ rPc' = "done"
    /\ UNCHANGED <<rMaxRetries, rBaseDelay, rScript, rI, rLastError, rCalls, rWaits>>
    /\ UNCHANGED <<stratVars, videoVars, extraVars>>

AttemptsRemainOffByOne(i, maxRetries) == i < maxRetries

\* line 41: a further iteration of the loop is left after iteration i
AttemptsRemain(i, maxRetries) == i < maxRetries - 1

\* lines 36-47: the awaited operation rejects
RetryOperationRejects ==
    /\ rPc = "await"
    /\ ScriptAt(rScript, rCalls) # Ok
    /\ LET error == ScriptAt(rScript, rCalls)
       IN  /\ rLastError' = error
           /\ IF IsOverloaded(error) /\ AttemptsRemain(rI, rMaxRetries)
              THEN /\ rWaits' = Append(rWaits, BackoffDelay(rBaseDelay, rI))
                   /\ rPc' = "wait"
                   /\ UNCHANGED rOutcome
              ELSE /\ rOutcome' = Thrown(error)
                   /\ rPc' = "done"
                   /\ UNCHANGED rWaits
    /\ UNCHANGED <<rMaxRetries, rBaseDelay, rScript, rI, rCalls>>
    /\ UNCHANGED <<stratVars, videoVars, extraVars>>

\* lines 44-45 and the i++ of line 33: the timer fires, next iteration
RetryWaitElapsed ==
    /\ rPc = "wait"
    /\ rI' = rI + 1
    /\ rPc' = "loop"
    /\ UNCHANGED <<rMaxRetries, rBaseDelay, rScript, rLastError, rCalls, rWaits, rOutcome>>
    /\ UNCHANGED <<stratVars, videoVars, extraVars>>

\* line 50: the loop ended without returning or throwing
RetryLoopExit ==
    /\ rPc = "loop"
    /\ ~(rI < rMaxRetries)
    /\ rOutcome' = Thrown(rLastError)
    /\ rPc' = "done"
    /\ UNCHANGED <<rMaxRetries, rBaseDelay, rScript, rI, rLastError, rCalls, rWaits>>
    /\ UNCHANGED <<stratVars, videoVars, extraVars>>

RetryNext ==
    \/ RetryInvoke
    \/ RetryOperationFulfils
    \/ RetryOperationRejects
    \/ RetryWaitElapsed
    \/ RetryLoopExit

RetryIdle ==
    /\ rPc = "idle"
    /\ rMaxRetries = DefaultMaxRetries
    /\ rBaseDelay = DefaultBaseDelay
    /\ rScript = <<Ok>>
    /\ rI = 0
    /\ rLastError = Undefined
    /\ rCalls = 0
    /\ rWaits = <<>>
    /\ rOutcome = NoOutcome

\* ------------------------------------------------------------------------
\* Nodes.  None is an absent (undefined / null / empty) field.  Media values
\* and prompts are sequences of tokens; the k-th input's media carry k, the
\* node's own carry 0.
\* ------------------------------------------------------------------------
MaxInputs == 2           \* number of upstream inputs

None == <<>>
EmptyString == <<>>
ModeAbsent == ""                         \* node.data.generationMode not set

ModeTags == {"DEFAULT", "CONTINUE", "FIRST_LAST_FRAME", "CUT", "CHARACTER_REF"}
UnknownTag == "PAN_ZOOM"                 \* a tag the switch does not list
StrategyNames == {"processDefaultVideoGen", "processStoryContinuator",
                  "processFrameWeaver", "processSceneDirector", "processCharacterRef"}

ImageOf(k) == <<"image", k>>
CropOf(k) == <<"crop", k>>
HttpVideoOf(k) == <<"http", k>>          \* a remote video URI
DataVideoOf(k) == <<"data:", k>>         \* an inline data: video URI

InputNodes(k) ==
    [image : {None, ImageOf(k)},
     croppedFrame : {None, CropOf(k)},
     videoUri : {None, HttpVideoOf(k), DataVideoOf(k)},
     videoMetadata : {None, <<"meta", k>>}]

RECURSIVE InputLists(_)
InputLists(n) ==
    IF n = 0 THEN {<<>>}
    ELSE LET shorter == InputLists(n - 1)
         IN  shorter \cup {Append(s, x) : s \in {t \in shorter : Len(t) = n - 1},
                                          x \in InputNodes(n)}

Nodes ==
    [generationMode : ModeTags \cup {ModeAbsent, UnknownTag},
     croppedFrame : {None, CropOf(0)}]

\* JavaScript truthiness of a field, and a || b
Truthy(x) == x # None
OrElse(a, b) == IF Truthy(a) THEN a ELSE b

\* Array.prototype.find over the answers of its predicate: the index of the
\* first TRUE, 0 if none
FirstTrue(flags) ==
    IF \E k \in 1..Len(flags) : flags[k]
    THEN CHOOSE k \in 1..Len(flags) :
            /\ flags[k]
            /\ \A j \in 1..(k - 1) : ~flags[j]
    ELSE 0

StartsWithHttp(uri) == uri # EmptyString /\ uri[1] = "http"
StartsWithData(uri) == uri # EmptyString /\ uri[1] = "data:"

\* ------------------------------------------------------------------------
\* StrategyResult
\* ------------------------------------------------------------------------
UndefinedImages == [defined |-> FALSE, images |-> <<>>]
ImageArray(images) == [defined |-> TRUE, images |-> images]

StrategyResult(finalPrompt, image, referenceImages, mode) ==
    [finalPrompt |-> finalPrompt,
     videoInput |-> None,
     inputImageForGeneration |-> image,
     referenceImages |-> referenceImages,
     generationMode |-> mode]

NoResult == [kind |-> "pending"]
Resolved(r) == [kind |-> "resolved", value |-> r]
Rejected == [kind |-> "rejected"]

\* an entry of the call log: the call, and how it settled once it has
Pending == [ok |-> FALSE, value |-> <<"pending">>]
Call(fn, arg) == [fn |-> fn, arg |-> arg, out |-> Pending]
Settle(calls, out) == [calls EXCEPT ![Len(calls)].out = out]

NoLocals == [vid |-> None, text |-> EmptyString, image |-> None,
             images |-> <<>>, finalPrompt |-> EmptyString]

\* ------------------------------------------------------------------------
\* Pure parts of the strategies
\* ------------------------------------------------------------------------
HasImageOrCrop(n) == Truthy(n.image) \/ Truthy(n.croppedFrame)
HasVideoOrMeta(n) == Truthy(n.videoUri) \/ Truthy(n.videoMetadata)
HasVideo(n) == Truthy(n.videoUri)
HasCrop(n) == Truthy(n.croppedFrame)
HasImage(n) == Truthy(n.image)

\* processDefaultVideoGen, lines 18-22
DefaultImage(node, inputs) ==
    LET k == FirstTrue([j \in 1..Len(inputs) |-> HasImageOrCrop(inputs[j])])
    IN  IF k = 0 THEN None
        ELSE OrElse(OrElse(inputs[k].croppedFrame, inputs[k].image), None)

\* processFrameWeaver, lines 73-77
RECURSIVE CollectImagesReversed(_)
CollectImagesReversed(inputs) ==
    IF inputs = <<>> THEN <<>>
    ELSE LET src == OrElse(Head(inputs).croppedFrame, Head(inputs).image)
         IN  CollectImagesReversed(Tail(inputs)) \o (IF Truthy(src) THEN <<src>> ELSE <<>>)

RECURSIVE CollectImages(_)
CollectImages(inputs) ==
    IF inputs = <<>> THEN <<>>
    ELSE LET src == OrElse(Head(inputs).croppedFrame, Head(inputs).image)
         IN  (IF Truthy(src) THEN <<src>> ELSE <<>>) \o CollectImages(Tail(inputs))

\* processFrameWeaver, line 82
ShouldBridgeWithOne(inputImages) == Len(inputImages) >= 1

ShouldBridge(inputImages) == Len(inputImages) >= 2

\* processSceneDirector, lines 117-123
SceneImageUpstreamFirst(node, inputs) ==
    LET c == FirstTrue([j \in 1..Len(inputs) |-> HasCrop(inputs[j])])
        m == FirstTrue([j \in 1..Len(inputs) |-> HasImage(inputs[j])])
    IN  IF c # 0 THEN inputs[c].croppedFrame
        ELSE IF m # 0 THEN inputs[m].image
        ELSE IF Truthy(node.croppedFrame) THEN node.croppedFrame
        ELSE None

SceneImage(node, inputs) ==
    IF Truthy(node.croppedFrame) THEN node.croppedFrame
    ELSE LET c == FirstTrue([j \in 1..Len(inputs) |-> HasCrop(inputs[j])])
             m == FirstTrue([j \in 1..Len(inputs) |-> HasImage(inputs[j])])
         IN  IF c # 0 THEN inputs[c].croppedFrame
             ELSE IF m # 0 THEN inputs[m].image
             ELSE None

\* processSceneDirector, line 125
StyleSuffix == ". \n\nStyle: "
ScenePrompt(prompt, style) == prompt \o <<StyleSuffix>> \o style

\* processCharacterRef, line 162
MotionPrompt(prompt, motionDescription) ==
    IF Truthy(motionDescription)
    THEN <<"Motion: ">> \o motionDescription \o <<". ">> \o prompt
    ELSE prompt

\* processCharacterRef, line 151
CharacterImage(inputs) ==
    LET k == FirstTrue([j \in 1..Len(inputs) |-> HasImage(inputs[j])])
    IN  IF k = 0 THEN None ELSE OrElse(inputs[k].image, None)

\* getGenerationStrategy, lines 179-193
SelectStrategySwapped(node) ==
    LET mode == IF node.generationMode = ModeAbsent THEN "DEFAULT" ELSE node.generationMode
    IN  CASE mode = "CHARACTER_REF" -> "processCharacterRef"
          [] mode = "FIRST_LAST_FRAME" -> "processFrameWeaver"
          [] mode = "CUT" -> "processStoryContinuator"
          [] mode = "CONTINUE" -> "processSceneDirector"
          [] OTHER -> "processDefaultVideoGen"

SelectStrategy(node) ==
    LET mode == IF node.generationMode = ModeAbsent THEN "DEFAULT" ELSE node.generationMode
    IN  CASE mode = "CHARACTER_REF" -> "processCharacterRef"
          [] mode = "FIRST_LAST_FRAME" -> "processFrameWeaver"
          [] mode = "CUT" -> "processSceneDirector"
          [] mode = "CONTINUE" -> "processStoryContinuator"
          [] mode = "DEFAULT" -> "processDefaultVideoGen"
          [] OTHER -> "processDefaultVideoGen"

\* ------------------------------------------------------------------------
\* Outcomes of the auxiliary calls
\* ------------------------------------------------------------------------
Fulfilled(v) == [ok |-> TRUE, value |-> v]
Fails == [ok |-> FALSE, value |-> None]

\* urlToBase64: a data URI, "" when the fetch fails, a rejection when the
\* FileReader fails (lines 126-140)
UrlToBase64Outcomes(url) ==
    {Fulfilled(<<"data:", url[2]>>), Fulfilled(EmptyString), Fails}

\* analyzeVideo: throws unless given a data: URI (lines 421-427), else the
\* model's text, "Analysis failed" for an empty reply, or a remote failure
AnalyzeVideoOutcomes(vidData) ==
    IF StartsWithData(vidData)
    THEN {Fulfilled(<<"analysis">>), Fulfilled(<<"Analysis failed">>), Fails}
    ELSE {Fails}

\* extractLastFrame: a PNG data URI or a rejection (lines 168-191)
ExtractLastFrameOutcomes(videoSrc) ==
    IF videoSrc = EmptyString THEN {Fails}
    ELSE {Fulfilled(<<"frame", videoSrc[2]>>), Fails}

\* orchestrateVideoPrompt: response.text || userPrompt, or a failure (lines 465-477)
OrchestrateOutcomes(userPrompt) ==
    {Fulfilled(<<"bridged">>), Fulfilled(userPrompt), Fails}

\* generateImageFromText: a non-empty list of images or a failure (lines 254-307)
RestorationOutcomes(image) ==
    {Fulfilled(<<<<"restored", image[2]>>>>), Fails}

\* ------------------------------------------------------------------------
\* getGenerationStrategy and the strategies
\* ------------------------------------------------------------------------
StrategyStart ==
    /\ sNode \in Nodes
    /\ sInputs \in InputLists(MaxInputs)
    /\ sPrompt = <<"prompt">>
    /\ sPc = "dispatch"
    /\ sRuns = <<>>
    /\ sCalls = <<>>
    /\ sLoc = NoLocals
    /\ sResult = NoResult

Finish(result) ==
    /\ sResult' = Resolved(result)
    /\ sPc' = "done"

\* getGenerationStrategy, lines 179-193
Dispatch ==
    /\ sPc = "dispatch"
    /\ sPc' = SelectStrategy(sNode)
    /\ sRuns' = Append(sRuns, SelectStrategy(sNode))
    /\ UNCHANGED <<sNode, sInputs, sPrompt, sCalls, sLoc, sResult>>
    /\ UNCHANGED <<retryVars, videoVars, extraVars>>

\* processDefaultVideoGen, lines 13-31
DefaultRun ==
    /\ sPc = "processDefaultVideoGen"
    /\ Finish(StrategyResult(sPrompt, DefaultImage(sNode, sInputs), UndefinedImages, "DEFAULT"))
    /\ UNCHANGED <<sNode, sInputs, sPrompt, sRuns, sCalls, sLoc>>
    /\ UNCHANGED <<retryVars, videoVars, extraVars>>

\* processStoryContinuator, lines 57-63
ContinuatorResultWithImages(inputImages) ==
    StrategyResult(sPrompt, IF Len(inputImages) > 0 THEN inputImages[1] ELSE None,
                   ImageArray(inputImages), "CONTINUE")

ContinuatorResult(inputImages) ==
    StrategyResult(sPrompt, IF Len(inputImages) > 0 THEN inputImages[1] ELSE None,
                   UndefinedImages, "CONTINUE")

\* lines 39-48, up to the first await
ContinuatorStart ==
    /\ sPc = "processStoryContinuator"
    /\ LET k == FirstTrue([j \in 1..Len(sInputs) |-> HasVideoOrMeta(sInputs[j])])
       IN  IF k # 0 /\ Truthy(sInputs[k].videoUri)
           THEN LET videoSrc == sInputs[k].videoUri
                IN  /\ sLoc' = [sLoc EXCEPT !.vid = videoSrc]
                    /\ IF StartsWithHttp(videoSrc)
                       THEN /\ sCalls' = Append(sCalls, Call("urlToBase64", videoSrc))
                            /\ sPc' = "continuator_url"
                       ELSE /\ sCalls' = Append(sCalls, Call("extractLastFrame", videoSrc))
                            /\ sPc' = "continuator_frame"
                    /\ UNCHANGED sResult
           ELSE /\ Finish(ContinuatorResult(<<>>))
                /\ UNCHANGED <<sCalls, sLoc>>
    /\ UNCHANGED <<sNode, sInputs, sPrompt, sRuns>>
    /\ UNCHANGED <<retryVars, videoVars, extraVars>>

\* line 46 settles; line 48 or the catch of line 52
ContinuatorUrlSettles ==
    /\ sPc = "continuator_url"
    /\ \E out \in UrlToBase64Outcomes(sLoc.vid) :
          IF out.ok
          THEN /\ sLoc' = [sLoc EXCEPT !.vid = out.value]
               /\ sCalls' = Append(Settle(sCalls, out), Call("extractLastFrame", out.value))
               /\ sPc' = "continuator_frame"
               /\ UNCHANGED sResult
          ELSE /\ Finish(ContinuatorResult(sLoc.images))
               /\ sCalls' = Settle(sCalls, out)
               /\ UNCHANGED sLoc
    /\ UNCHANGED <<sNode, sInputs, sPrompt, sRuns>>
    /\ UNCHANGED <<retryVars, videoVars, extraVars>>

\* line 48 settles; lines 49-63
ContinuatorFrameSettles ==
    /\ sPc = "continuator_frame"
    /\ \E out \in ExtractLastFrameOutcomes(sLoc.vid) :
          LET inputImages == IF out.ok /\ Truthy(out.value) THEN <<out.value>> ELSE sLoc.images
          IN  /\ sLoc' = [sLoc EXCEPT !.images = inputImages]
              /\ sCalls' = Settle(sCalls, out)
              /\ Finish(ContinuatorResult(inputImages))
    /\ UNCHANGED <<sNode, sInputs, sPrompt, sRuns>>
    /\ UNCHANGED <<retryVars, videoVars, extraVars>>

\* processFrameWeaver, lines 90-96
FrameWeaverResult(finalPrompt, inputImages) ==
    StrategyResult(finalPrompt, IF Len(inputImages) > 0 THEN inputImages[1] ELSE None,
                   ImageArray(inputImages), "FIRST_LAST_FRAME")

\* lines 73-84, up to the await
FrameWeaverStart ==
    /\ sPc = "processFrameWeaver"
    /\ LET inputImages == CollectImages(sInputs)
       IN  /\ sLoc' = [sLoc EXCEPT !.images = inputImages, !.finalPrompt = sPrompt]
           /\ IF ShouldBridge(inputImages)
              THEN /\ sCalls' = Append(sCalls,
                          Call("orchestrateVideoPrompt",
                               <<inputImages[1], inputImages[Len(inputImages)]>>))
                   /\ sPc' = "weaver_bridge"
                   /\ UNCHANGED sResult
              ELSE /\ Finish(FrameWeaverResult(sPrompt, inputImages))
                   /\ UNCHANGED sCalls
    /\ UNCHANGED <<sNode, sInputs, sPrompt, sRuns>>
    /\ UNCHANGED <<retryVars, videoVars, extraVars>>

\* line 84 settles; lines 85-96
FrameWeaverBridgeSettles ==
    /\ sPc = "weaver_bridge"
    /\ \E out \in OrchestrateOutcomes(sPrompt) :
          LET finalPrompt == IF out.ok THEN out.value ELSE sLoc.finalPrompt
          IN  /\ sLoc' = [sLoc EXCEPT !.finalPrompt = finalPrompt]
              /\ sCalls' = Settle(sCalls, out)
              /\ Finish(FrameWeaverResult(finalPrompt, sLoc.images))
    /\ UNCHANGED <<sNode, sInputs, sPrompt, sRuns>>
    /\ UNCHANGED <<retryVars, videoVars, extraVars>>

\* processSceneDirector, lines 117-130 (up to the await) or 135-141
SceneAfterStyle(upstreamContextStyle, calls) ==
    LET image == SceneImage(sNode, sInputs)
        finalPrompt == ScenePrompt(sPrompt, upstreamContextStyle)
    IN  /\ sLoc' = [sLoc EXCEPT !.text = upstreamContextStyle, !.image = image,
                                !.finalPrompt = finalPrompt]
        /\ IF Truthy(image)
           THEN /\ sCalls' = Append(calls, Call("generateImageFromText", image))
                /\ sPc' = "scene_restore"
                /\ UNCHANGED sResult
           ELSE /\ sCalls' = calls
                /\ Finish(StrategyResult(finalPrompt, image, UndefinedImages, "CUT"))

\* lines 105-113, up to the first await
SceneStart ==
    /\ sPc = "processSceneDirector"
    /\ LET k == FirstTrue([j \in 1..Len(sInputs) |-> HasVideo(sInputs[j])])
       IN  IF k # 0 /\ Truthy(sInputs[k].videoUri)
           THEN LET vidData == sInputs[k].videoUri
                IN  /\ sLoc' = [sLoc EXCEPT !.vid = vidData]
                    /\ IF StartsWithHttp(vidData)
                       THEN /\ sCalls' = Append(sCalls, Call("urlToBase64", vidData))
                            /\ sPc' = "scene_url"
                       ELSE /\ sCalls' = Append(sCalls, Call("analyzeVideo", vidData))
                            /\ sPc' = "scene_analyze"
                    /\ UNCHANGED sResult
           ELSE SceneAfterStyle(EmptyString, sCalls)
    /\ UNCHANGED <<sNode, sInputs, sPrompt, sRuns>>
    /\ UNCHANGED <<retryVars, videoVars, extraVars>>

\* line 112 settles; line 113 or the catch of line 114
SceneUrlSettles ==
    /\ sPc = "scene_url"
    /\ \E out \in UrlToBase64Outcomes(sLoc.vid) :
          IF out.ok
          THEN /\ sLoc' = [sLoc EXCEPT !.vid = out.value]
               /\ sCalls' = Append(Settle(sCalls, out), Call("analyzeVideo", out.value))
               /\ sPc' = "scene_analyze"
               /\ UNCHANGED sResult
          ELSE SceneAfterStyle(sLoc.text, Settle(sCalls, out))
    /\ UNCHANGED <<sNode, sInputs, sPrompt, sRuns>>
    /\ UNCHANGED <<retryVars, videoVars, extraVars>>

\* line 113 settles
SceneAnalyzeSettles ==
    /\ sPc = "scene_analyze"
    /\ \E out \in AnalyzeVideoOutcomes(sLoc.vid) :
          SceneAfterStyle(IF out.ok THEN out.value ELSE sLoc.text, Settle(sCalls, out))
    /\ UNCHANGED <<sNode, sInputs, sPrompt, sRuns>>
    /\ UNCHANGED <<retryVars, videoVars, extraVars>>

\* line 130 settles; lines 131-141
SceneRestoreSettles ==
    /\ sPc = "scene_restore"
    /\ \E out \in RestorationOutcomes(sLoc.image) :
          LET image == IF out.ok /\ Len(out.value) > 0 THEN out.value[1] ELSE sLoc.image
          IN  /\ sLoc' = [sLoc EXCEPT !.image = image]
              /\ sCalls' = Settle(sCalls, out)
              /\ Finish(StrategyResult(sLoc.finalPrompt, image, UndefinedImages, "CUT"))
    /\ UNCHANGED <<sNode, sInputs, sPrompt, sRuns>>
    /\ UNCHANGED <<retryVars, videoVars, extraVars>>

\* processCharacterRef, lines 162-170
CharacterFinish(motionDescription) ==
    /\ sLoc' = [sLoc EXCEPT !.text = motionDescription,
                            !.finalPrompt = MotionPrompt(sPrompt, motionDescription)]
    /\ Finish(StrategyResult(MotionPrompt(sPrompt, motionDescription),
                             CharacterImage(sInputs), UndefinedImages, "CHARACTER_REF"))

\* lines 150-158, up to the first await
CharacterStart ==
    /\ sPc = "processCharacterRef"
    /\ LET k == FirstTrue([j \in 1..Len(sInputs) |-> HasVideo(sInputs[j])])
       IN  IF k # 0 /\ Truthy(sInputs[k].videoUri)
           THEN LET vidData == sInputs[k].videoUri
                IN  /\ sLoc' = [sLoc EXCEPT !.vid = vidData]
                    /\ IF StartsWithHttp(vidData)
                       THEN /\ sCalls' = Append(sCalls, Call("urlToBase64", vidData))
                            /\ sPc' = "character_url"
                       ELSE /\ sCalls' = Append(sCalls, Call("analyzeVideo", vidData))
                            /\ sPc' = "character_analyze"
                    /\ UNCHANGED sResult
           ELSE /\ CharacterFinish(EmptyString)
                /\ UNCHANGED sCalls
    /\ UNCHANGED <<sNode, sInputs, sPrompt, sRuns>>
    /\ UNCHANGED <<retryVars, videoVars, extraVars>>

\* line 157 settles; line 158 or the catch of line 159
CharacterUrlSettles ==
    /\ sPc = "character_url"
    /\ \E out \in UrlToBase64Outcomes(sLoc.vid) :
          IF out.ok
          THEN /\ sLoc' = [sLoc EXCEPT !.vid = out.value]
               /\ sCalls' = Append(Settle(sCalls, out), Call("analyzeVideo", out.value))
               /\ sPc' = "character_analyze"
               /\ UNCHANGED sResult
          ELSE /\ CharacterFinish(sLoc.text)
               /\ sCalls' = Settle(sCalls, out)
    /\ UNCHANGED <<sNode, sInputs, sPrompt, sRuns>>
    /\ UNCHANGED <<retryVars, videoVars, extraVars>>

\* line 158 settles
CharacterAnalyzeSettles ==
    /\ sPc = "character_analyze"
    /\ \E out \in AnalyzeVideoOutcomes(sLoc.vid) :
          /\ CharacterFinish(IF out.ok THEN out.value ELSE sLoc.text)
          /\ sCalls' = Settle(sCalls, out)
    /\ UNCHANGED <<sNode, sInputs, sPrompt, sRuns>>
    /\ UNCHANGED <<retryVars, videoVars, extraVars>>

StrategyNext ==
    \/ Dispatch
    \/ DefaultRun
    \/ ContinuatorStart
    \/ ContinuatorUrlSettles
    \/ ContinuatorFrameSettles
    \/ FrameWeaverStart
    \/ FrameWeaverBridgeSettles
    \/ SceneStart
    \/ SceneUrlSettles
    \/ SceneAnalyzeSettles
    \/ SceneRestoreSettles
    \/ CharacterStart
    \/ CharacterUrlSettles
    \/ CharacterAnalyzeSettles

StrategyIdle ==
    /\ sNode = [generationMode |-> ModeAbsent, croppedFrame |-> None]
    /\ sInputs = <<>>
    /\ sPrompt = <<"prompt">>
    /\ sPc = "idle"
    /\ sRuns = <<>>
    /\ sCalls = <<>>
    /\ sLoc = NoLocals
    /\ sResult = NoResult

\* ------------------------------------------------------------------------
\* generateVideo (lines 309-415)
\* ------------------------------------------------------------------------
MaxCount == 3            \* options.count ranges over 0..MaxCount (0 = not given)

ApiKey == <<"&key=", "API_KEY">>

\* errors the remote video calls raise in the model
VideoErrors ==
    { ErrObject(StatusOverloaded, 0, StrBad, <<>>),
      ErrObject(0, 0, StrOverloadedMixed, <<>>),
      ErrObject(400, 0, StrBad, <<>>) }

\* errors of the still-image fallback
ImageErrors == { ErrObject(0, 0, StrDenied, <<>>) }

\* a completed operation: its response carries a video with a uri, or none
OpWithVideo(slot) == [uri |-> <<"uri", slot>>]
OpWithoutVideo == [uri |-> None]

\* abandoned: the slot's accepted operation was dropped by a transient error of
\* its polling loop, and the replacing request has not settled yet
SlotIdle == [pc |-> "idle", i |-> 0, submits |-> 0, waits |-> <<>>,
             value |-> OpWithoutVideo, reason |-> Undefined, abandoned |-> FALSE]

\* line 356
EffectiveCount(count) == IF count = 0 THEN 1 ELSE count

Slots == 1..EffectiveCount(vCount)


\* lines 379-391: the uris of the fulfilled operations that carry one, in slot order
RECURSIVE ValidUrisUpTo(_, _)
ValidUrisUpTo(results, n) ==
    IF n = 0 THEN <<>>
    ELSE ValidUrisUpTo(results, n - 1)
         \o (IF results[n].pc = "fulfilled" /\ Truthy(results[n].value.uri)
             THEN <<results[n].value.uri \o ApiKey>> ELSE <<>>)

ValidUrisFirstOnly(results) ==
    LET all == ValidUrisUpTo(results, Len(results))
    IN  IF Len(all) > 0 THEN <<all[1]>> ELSE <<>>

ValidUris(results) == ValidUrisUpTo(results, Len(results))

\* line 394-395: the first rejection's reason, or a fresh Error
StrVideoFailed == <<"Video generation failed.">>
FirstFailure(results) ==
    LET k == FirstTrue([j \in 1..Len(results) |-> results[j].pc = "rejected"])
    IN  IF k # 0 THEN results[k].reason ELSE ErrObject(0, 0, StrVideoFailed, <<>>)

\* line 412
FinalErrorFromImage(e, imgErr) ==
    ErrObject(0, 0, <<"Video generation failed: ">> \o getErrorMessage(imgErr), <<>>)

FinalError(e, imgErr) ==
    ErrObject(0, 0, <<"Video generation failed: ">> \o getErrorMessage(e), <<>>)

\* line 41 inside a fan-out slot: retryWithBackoff with its default parameters
SlotRetries(error, i) == IsOverloaded(error) /\ i < DefaultMaxRetries - 1

VideoStart ==
    /\ vPc = "prepare"
    /\ vCount \in 0..MaxCount
    /\ vSlots = <<>>
    /\ vError = Undefined
    /\ vFallbackCalls = 0
    /\ vOutcome = NoOutcome
    /\ vOutOfOrder = FALSE

\* lines 318-354: the request is assembled.  In FIRST_LAST_FRAME mode with two
\* reference images a failed image conversion rejects the call (lines 337-338);
\* a failed conversion of the seed image is swallowed (lines 344-349).
\* lines 359-376: the loop starts every operation; each runs synchronously up to
\* its first await, the generateVideos request.
PrepareAndFanOut ==
    /\ vPc = "prepare"
    /\ \E inputKind \in {"frames", "seed", "text"}, conversionOk \in BOOLEAN :
          IF inputKind = "frames" /\ ~conversionOk
          THEN /\ vOutcome' = Thrown(ErrObject(0, 0, <<"Image conversion failed">>, <<>>))
               /\ vPc' = "done"
               /\ UNCHANGED vSlots
          ELSE /\ vSlots' = [s \in Slots |->
                                [SlotIdle EXCEPT !.pc = "submitted", !.submits = 1]]
               /\ vPc' = "fanout"
               /\ UNCHANGED vOutcome
    /\ UNCHANGED <<vCount, vError, vFallbackCalls, vOutOfOrder>>
    /\ UNCHANGED <<retryVars, stratVars, extraVars>>

\* an operation settles; it is remembered whether one launched before it is
\* still pending
SettlesNow(slot) ==
    vOutOfOrder' = (vOutOfOrder
                    \/ \E t \in 1..(slot - 1) : vSlots[t].pc \notin {"fulfilled", "rejected"})

\* lines 36-47 for a slot whose operation threw, while the request was being
\* submitted (accepted = FALSE) or while the accepted operation was polled
SlotAfterError(slot, error, accepted) ==
    LET s == vSlots[slot]
    IN  IF SlotRetries(error, s.i)
        THEN /\ vSlots' = [vSlots EXCEPT ![slot] =
                    [s EXCEPT !.pc = "backoff",
                              !.abandoned = accepted,
                              !.waits = Append(s.waits, BackoffDelay(DefaultBaseDelay, s.i))]]
             /\ UNCHANGED vOutOfOrder
        ELSE /\ vSlots' = [vSlots EXCEPT ![slot] =
                    [s EXCEPT !.pc = "rejected", !.reason = error, !.abandoned = FALSE]]
             /\ SettlesNow(slot)

\* lines 370-374 for a slot that holds an operation handle
SlotAfterOp(slot, done, hasVideo) ==
    LET s == vSlots[slot]
    IN  IF done
        THEN /\ vSlots' = [vSlots EXCEPT ![slot] =
                    [s EXCEPT !.pc = "fulfilled", !.abandoned = FALSE,
                              !.value = IF hasVideo THEN OpWithVideo(slot) ELSE OpWithoutVideo]]
             /\ SettlesNow(slot)
        ELSE /\ vSlots' = [vSlots EXCEPT ![slot] =
                    [s EXCEPT !.pc = "polling", !.abandoned = FALSE]]
             /\ UNCHANGED vOutOfOrder

\* line 364 settles
SubmitSettles ==
    /\ vPc = "fanout"
    /\ \E slot \in Slots :
          /\ vSlots[slot].pc = "submitted"
          /\ \/ \E done \in BOOLEAN, hasVideo \in BOOLEAN : SlotAfterOp(slot, done, hasVideo)
             \/ \E error \in VideoErrors : SlotAfterError(slot, error, FALSE)
    /\ UNCHANGED <<vPc, vCount, vError, vFallbackCalls, vOutcome>>
    /\ UNCHANGED <<retryVars, stratVars, extraVars>>

\* lines 371-372: the 10 s wait elapsed and getVideosOperation settles
PollSettles ==
    /\ vPc = "fanout"
    /\ \E slot \in Slots :
          /\ vSlots[slot].pc = "polling"
          /\ \/ \E done \in BOOLEAN, hasVideo \in BOOLEAN : SlotAfterOp(slot, done, hasVideo)
             \/ \E error \in VideoErrors : SlotAfterError(slot, error, TRUE)
    /\ UNCHANGED <<vPc, vCount, vError, vFallbackCalls, vOutcome>>
    /\ UNCHANGED <<retryVars, stratVars, extraVars>>

SlotResumePolling(s) ==
    IF s.abandoned
    THEN [s EXCEPT !.pc = "polling", !.i = @ + 1, !.abandoned = FALSE]
    ELSE [s EXCEPT !.pc = "submitted", !.i = @ + 1, !.submits = @ + 1]

\* lines 33-35 and 360-365: the next iteration invokes the whole operation
\* again, which starts with a new generateVideos request
SlotResubmit(s) == [s EXCEPT !.pc = "submitted", !.i = @ + 1, !.submits = @ + 1]

\* lines 44-45, 33-35: the backoff elapsed, the operation is invoked again
\* and submits a new generateVideos request
SlotBackoffElapsed ==
    /\ vPc = "fanout"
    /\ \E slot \in Slots :
          /\ vSlots[slot].pc = "backoff"
          /\ vSlots' = [vSlots EXCEPT ![slot] = SlotResubmit(vSlots[slot])]
    /\ UNCHANGED <<vPc, vCount, vError, vFallbackCalls, vOutcome, vOutOfOrder>>
    /\ UNCHANGED <<retryVars, stratVars, extraVars>>

JoinReadyAny(slots) ==
    \E slot \in 1..Len(slots) : slots[slot].pc \in {"fulfilled", "rejected"}

\* line 378: Promise.allSettled resolves once every promise has settled
JoinReady(slots) ==
    \A slot \in 1..Len(slots) : slots[slot].pc \in {"fulfilled", "rejected"}

\* lines 378-409: Promise.allSettled resolves once every operation has settled
Join ==
    /\ vPc = "fanout"
    /\ JoinReady(vSlots)
    /\ LET validUris == ValidUris(vSlots)
       IN  IF Len(validUris) = 0
           THEN /\ vError' = FirstFailure(vSlots)
                /\ vFallbackCalls' = vFallbackCalls + 1
                /\ vPc' = "fallback"
                /\ UNCHANGED vOutcome
           ELSE /\ vOutcome' = Returned([uri |-> validUris[1], uris |-> validUris,
                                         isFallbackImage |-> FALSE])
                /\ vPc' = "done"
                /\ UNCHANGED <<vError, vFallbackCalls>>
    /\ UNCHANGED <<vCount, vSlots, vOutOfOrder>>
    /\ UNCHANGED <<retryVars, stratVars, extraVars>>

\* line 409 settles; lines 410-413
FallbackSettles ==
    /\ vPc = "fallback"
    /\ \/ vOutcome' = Returned([uri |-> <<"still">>, uris |-> <<>>, isFallbackImage |-> TRUE])
       \/ \E imgErr \in ImageErrors : vOutcome' = Thrown(FinalError(vError, imgErr))
    /\ vPc' = "done"
    /\ UNCHANGED <<vCount, vSlots, vError, vFallbackCalls, vOutOfOrder>>
    /\ UNCHANGED <<retryVars, stratVars, extraVars>>

VideoNext ==
    \/ PrepareAndFanOut
    \/ SubmitSettles
    \/ PollSettles
    \/ SlotBackoffElapsed
    \/ Join
    \/ FallbackSettles

VideoIdle ==
    /\ vPc = "idle"
    /\ vCount = 0
    /\ vSlots = <<>>
    /\ vError = Undefined
    /\ vFallbackCalls = 0
    /\ vOutcome = NoOutcome
    /\ vOutOfOrder = FALSE

\* ------------------------------------------------------------------------
\* The entry points that talk to the remote API, up to their first remote
\* call, and getClient (lines 6-11)
\* ------------------------------------------------------------------------
EntryPoints ==
    {"sendChatMessage", "generateImageFromText", "generateVideo", "analyzeVideo",
     "planStoryboard", "orchestrateVideoPrompt", "generateAudio", "transcribeAudio",
     "connectLiveSession"}

\* the Error of line 8
MissingCredentialError ==
    ErrObject(0, 0, <<"API Key is missing. Please select a paid API key via the Google AI Studio button.">>, <<>>)

\* what the SDK's constructor may throw when it is given no key
SdkKeyError == ErrObject(0, 0, <<"GoogleGenAI: no API key">>, <<>>)

\* the Error of line 426
DirectUrlError == ErrObject(0, 0, <<"Direct URL analysis not implemented.">>, <<>>)

\* Every entry point but generateVideo obtains its client from getClient
\* (lines 228, 260, 418, 448, 466, 488, 512, 533); generateVideo constructs
\* it directly (lines 318 and 363)
UsesGetClient(entry) == entry # "generateVideo"

\* getClient, lines 6-11: TRUE when it throws
GetClientThrows(key) == ~Truthy(key)

CredentialStart ==
    /\ cKey \in {None, <<"API_KEY">>}
    /\ cEntry \in EntryPoints
    /\ cDataUri \in BOOLEAN
    /\ cPc = "start"
    /\ cRemoteCalls = 0
    /\ cOutcome = NoOutcome

\* the entry point runs up to its first remote call
EntryRuns ==
    /\ cPc = "start"
    /\ IF UsesGetClient(cEntry)
       THEN IF GetClientThrows(cKey)
            THEN /\ cOutcome' = Thrown(MissingCredentialError)
                 /\ cPc' = "done"
                 /\ UNCHANGED cRemoteCalls
            ELSE IF cEntry = "analyzeVideo" /\ ~cDataUri
            THEN /\ cOutcome' = Thrown(DirectUrlError)
                 /\ cPc' = "done"
                 /\ UNCHANGED cRemoteCalls
            ELSE /\ cRemoteCalls' = cRemoteCalls + 1
                 /\ cPc' = "remote"
                 /\ UNCHANGED cOutcome
       ELSE \* generateVideo, lines 318-364: no check of the key; the SDK's
            \* constructor is outside this repository and may reject a missing
            \* key itself or accept it
            \/ /\ ~Truthy(cKey)
               /\ cOutcome' = Thrown(SdkKeyError)
               /\ cPc' = "done"
               /\ UNCHANGED cRemoteCalls
            \/ /\ cRemoteCalls' = cRemoteCalls + 1
               /\ cPc' = "remote"
               /\ UNCHANGED cOutcome
    /\ UNCHANGED <<cKey, cEntry, cDataUri>>
    /\ UNCHANGED credRest

\* the first remote call settles.  generateImageFromText rewraps a failure
\* (line 305); generateVideo goes on as its own model describes.
EntryRemoteSettles ==
    /\ cPc = "remote"
    /\ cEntry # "generateVideo"
    /\ \/ cOutcome' = Returned(SuccessValue)
       \/ \E error \in ErrorSamples :
             cOutcome' = Thrown(IF cEntry = "generateImageFromText"
                                THEN ErrObject(0, 0, getErrorMessage(error), <<>>)
                                ELSE error)
    /\ cPc' = "done"
    /\ UNCHANGED <<cKey, cEntry, cDataUri, cRemoteCalls>>
    /\ UNCHANGED credRest

CredentialNext ==
    \/ EntryRuns
    \/ EntryRemoteSettles

CredentialIdle ==
    /\ cKey = None
    /\ cEntry = "sendChatMessage"
    /\ cDataUri = FALSE
    /\ cPc = "idle"
    /\ cRemoteCalls = 0
    /\ cOutcome = NoOutcome

\* ------------------------------------------------------------------------
\* urlToBase64 (lines 126-140) and extractLastFrame (lines 168-191)
\* ------------------------------------------------------------------------
MaxErrorEvents == 2

MediaUrls == {<<"http", "video1">>, <<"http", "image1">>}

\* what the steps of urlToBase64 throw or reject with
FetchError == ErrObject(0, 0, <<"Failed to fetch">>, <<>>)
BodyError == ErrObject(0, 0, <<"body stream already read">>, <<>>)
ReaderErrorEvent == ErrObject(0, 0, <<"ProgressEvent error">>, <<>>)

UrlStart ==
    /\ uUrl \in MediaUrls
    /\ uPc = "fetch"
    /\ uStatus = 0
    /\ uFailed = "none"
    /\ uOutcome = NoOutcome

\* line 128 settles: a response of any status, or fetch throws (lines 136-138)
UrlFetchSettles ==
    /\ uPc = "fetch"
    /\ \/ /\ \E status \in {200, 404} : uStatus' = status
          /\ uPc' = "blob"
          /\ UNCHANGED <<uFailed, uOutcome>>
       \/ /\ uFailed' = "fetch"
          /\ uOutcome' = Returned(EmptyString)
          /\ uPc' = "done"
          /\ UNCHANGED uStatus
    /\ UNCHANGED uUrl
    /\ UNCHANGED <<frameVars, mediaRest>>

\* line 129 settles: the blob, after which lines 130-135 return the promise of
\* the FileReader without awaiting it, or blob() throws (lines 136-138)
UrlBlobSettles ==
    /\ uPc = "blob"
    /\ \/ /\ uPc' = "read"
          /\ UNCHANGED <<uFailed, uOutcome>>
       \/ /\ uFailed' = "body"
          /\ uOutcome' = Returned(EmptyString)
          /\ uPc' = "done"
    /\ UNCHANGED <<uUrl, uStatus>>
    /\ UNCHANGED <<frameVars, mediaRest>>

\* line 133: reader.onerror = reject, on a promise that was returned from the
\* try block and is settled after the function has left it
ReaderFailure(event) == Thrown(event)

\* lines 132-133: the FileReader calls onload or onerror
UrlReaderSettles ==
    /\ uPc = "read"
    /\ \/ /\ uOutcome' = Returned(<<"data:", uUrl[2]>>)
          /\ UNCHANGED uFailed
       \/ /\ uFailed' = "reader"
          /\ uOutcome' = ReaderFailure(ReaderErrorEvent)
    /\ uPc' = "done"
    /\ UNCHANGED <<uUrl, uStatus>>
    /\ UNCHANGED <<frameVars, mediaRest>>

UrlIdle ==
    /\ uUrl = None
    /\ uPc = "idle"
    /\ uStatus = 0
    /\ uFailed = "none"
    /\ uOutcome = NoOutcome

VideoSources == {<<"data:", "video1">>, <<"http", "video1">>}

\* video.duration in milliseconds
Durations == {0, 50, 5000}

CanvasContextError == ErrObject(0, 0, <<"Canvas context failed">>, <<>>)
DrawError == ErrObject(0, 0, <<"SecurityError">>, <<>>)
VideoLoadError == ErrObject(0, 0, <<"Video load failed for frame extraction">>, <<>>)

\* what happens to the canvas in lines 177-186
CanvasOutcomes == {"captured", "noContext", "drawThrows"}

\* resolve and reject have no effect on a promise that is already settled
SettleOnce(outcome, new) == IF outcome = NoOutcome THEN new ELSE outcome

\* line 174: Math.max(0, video.duration - 0.1), in milliseconds
SeekTarget(duration) == IF duration - 100 > 0 THEN duration - 100 ELSE 0

ReleasedOnlyOnSuccess(canvas) == canvas = "captured"

\* line 187: finally { video.remove(); }
ReleasedAfterSeeked(canvas) == TRUE

\* lines 177-187: what the seeked handler does to the promise
AfterSeeked(src, canvas) ==
    IF canvas = "captured" THEN Returned(<<"frame", src[2]>>)
    ELSE IF canvas = "noContext" THEN Thrown(CanvasContextError)
    ELSE Thrown(DrawError)

FrameStart ==
    /\ eSrc \in VideoSources
    /\ eDuration = None
    /\ eCurrentTime = 0
    /\ eSeeking = FALSE
    /\ eErrors = 0
    /\ eReleased = FALSE
    /\ eOutcome = NoOutcome

\* line 174: the metadata are loaded, the handler seeks to the last frame
OnLoadedMetadata ==
    /\ eSrc # None
    /\ eDuration = None
    /\ \E duration \in Durations :
          /\ eDuration' = <<duration>>
          /\ eCurrentTime' = SeekTarget(duration)
    /\ eSeeking' = TRUE
    /\ UNCHANGED <<eSrc, eErrors, eReleased, eOutcome>>
    /\ UNCHANGED <<urlVars, mediaRest>>

\* lines 175-188: the seek completed
OnSeeked ==
    /\ eSeeking
    /\ eSeeking' = FALSE
    /\ \E canvas \in CanvasOutcomes :
          /\ eOutcome' = SettleOnce(eOutcome, AfterSeeked(eSrc, canvas))
          /\ eReleased' = (eReleased \/ ReleasedAfterSeeked(canvas))
    /\ UNCHANGED <<eSrc, eDuration, eCurrentTime, eErrors>>
    /\ UNCHANGED <<urlVars, mediaRest>>

\* line 189: the element reports an error, before or after the metadata
OnError ==
    /\ eSrc # None
    /\ eErrors < MaxErrorEvents
    /\ eErrors' = eErrors + 1
    /\ eOutcome' = SettleOnce(eOutcome, Thrown(VideoLoadError))
    /\ eReleased' = TRUE
    /\ UNCHANGED <<eSrc, eDuration, eCurrentTime, eSeeking>>
    /\ UNCHANGED <<urlVars, mediaRest>>

FrameIdle ==
    /\ eSrc = None
    /\ eDuration = None
    /\ eCurrentTime = 0
    /\ eSeeking = FALSE
    /\ eErrors = 0
    /\ eReleased = FALSE
    /\ eOutcome = NoOutcome

MediaStart == UrlStart /\ FrameStart

MediaNext ==
    \/ UrlFetchSettles
    \/ UrlBlobSettles
    \/ UrlReaderSettles
    \/ OnLoadedMetadata
    \/ OnSeeked
    \/ OnError

MediaIdle == UrlIdle /\ FrameIdle

\* ------------------------------------------------------------------------
\* combineBase64Chunks (lines 55-118): strings are sequences of characters,
\* binary strings and byte arrays are sequences of numbers 0..255
\* ------------------------------------------------------------------------
MaxChunks == 2
MaxChunkBytes == 2

ByteSamples == {0, 255}
SampleRates == {8000, 24000, 44100}

\* line 89: new ArrayBuffer(44)
HeaderSize == 44
\* line 111
SliceSize == 8192

Base64Alphabet ==
    << "A", "B", "C", "D", "E", "F", "G", "H", "I", "J", "K", "L", "M",
       "N", "O", "P", "Q", "R", "S", "T", "U", "V", "W", "X", "Y", "Z",
       "a", "b", "c", "d", "e", "f", "g", "h", "i", "j", "k", "l", "m",
       "n", "o", "p", "q", "r", "s", "t", "u", "v", "w", "x", "y", "z",
       "0", "1", "2", "3", "4", "5", "6", "7", "8", "9", "+", "/" >>

Base64Value ==
    [c \in {Base64Alphabet[i] : i \in 1..64} |-> CHOOSE v \in 0..63 : Base64Alphabet[v + 1] = c]

\* btoa: three bytes become four characters, the last group is padded with "="
Btoa(binary) ==
    LET n == Len(binary)
        ByteAt(k) == IF k <= n THEN binary[k] ELSE 0
        CharAt(k) ==
            LET g == (k - 1) \div 4
                j == (k - 1) % 4
                b0 == ByteAt(3 * g + 1)
                b1 == ByteAt(3 * g + 2)
                b2 == ByteAt(3 * g + 3)
            IN  IF j = 0 THEN Base64Alphabet[(b0 \div 4) + 1]
                ELSE IF j = 1 THEN Base64Alphabet[(b0 % 4) * 16 + (b1 \div 16) + 1]
                ELSE IF j = 2
                     THEN IF 3 * g + 2 > n THEN "="
                          ELSE Base64Alphabet[(b1 % 16) * 4 + (b2 \div 64) + 1]
                ELSE IF 3 * g + 3 > n THEN "=" ELSE Base64Alphabet[(b2 % 64) + 1]
    IN  [k \in 1..(4 * ((n + 2) \div 3)) |-> CharAt(k)]

\* atob on a padded base64 string: four characters become up to three bytes
Atob(base64) ==
    LET m == Len(base64)
        pad == IF m >= 2 /\ base64[m - 1] = "=" THEN 2
               ELSE IF m >= 1 /\ base64[m] = "=" THEN 1 ELSE 0
        Sextet(k) == IF base64[k] = "=" THEN 0 ELSE Base64Value[base64[k]]
        ByteAt(k) ==
            LET g == (k - 1) \div 3
                j == (k - 1) % 3
                s0 == Sextet(4 * g + 1)
                s1 == Sextet(4 * g + 2)
                s2 == Sextet(4 * g + 3)
                s3 == Sextet(4 * g + 4)
            IN  IF j = 0 THEN s0 * 4 + (s1 \div 16)
                ELSE IF j = 1 THEN (s1 % 16) * 16 + (s2 \div 4)
                ELSE (s2 % 4) * 64 + s3
    IN  [k \in 1..((m \div 4) * 3 - pad) |-> ByteAt(k)]

\* lines 61-69: charCodeAt of every character of atob's binary string
base64ToUint8Array(base64) == Atob(base64)

\* charCodeAt of the characters of the four tags
CharCode ==
    [c \in {"R", "I", "F", "W", "A", "V", "E", "f", "m", "t", " ", "d", "a"} |->
        CASE c = "R" -> 82 [] c = "I" -> 73 [] c = "F" -> 70 [] c = "W" -> 87
          [] c = "A" -> 65 [] c = "V" -> 86 [] c = "E" -> 69 [] c = "f" -> 102
          [] c = "m" -> 109 [] c = "t" -> 116 [] c = " " -> 32 [] c = "d" -> 100
          [] c = "a" -> 97]

\* lines 55-59; a DataView is the sequence of its bytes, offset 0 at index 1
writeString(view, offset, string) ==
    [k \in 1..Len(view) |->
        IF k > offset /\ k <= offset + Len(string) THEN CharCode[string[k - offset]] ELSE view[k]]

\* DataView.setUint32(offset, value, true): the value modulo 2^32, little-endian
setUint32(view, offset, value) ==
    [view EXCEPT ![offset + 1] = value % 256,
                 ![offset + 2] = (value \div 256) % 256,
                 ![offset + 3] = (value \div 65536) % 256,
                 ![offset + 4] = (value \div 16777216) % 256]

\* DataView.setUint16(offset, value, true): the value modulo 2^16, little-endian
setUint16(view, offset, value) ==
    [view EXCEPT ![offset + 1] = value % 256,
                 ![offset + 2] = (value \div 256) % 256]

\* lines 81-86: the arrays copied one after the other
RECURSIVE MergeUpTo(_, _)
MergeUpTo(arrays, n) == IF n = 0 THEN <<>> ELSE MergeUpTo(arrays, n - 1) \o arrays[n]

ByteRateOfBits(sampleRate, channels, bitDepth) == sampleRate * channels * bitDepth

\* line 99
ByteRateOf(sampleRate, channels, bitDepth) == sampleRate * channels * (bitDepth \div 8)

\* lines 87-104
WavHeader(totalLength, sampleRate) ==
    LET channels == 1
        bitDepth == 16
        h0  == [k \in 1..HeaderSize |-> 0]
        h1  == writeString(h0, 0, <<"R", "I", "F", "F">>)
        h2  == setUint32(h1, 4, 36 + totalLength)
        h3  == writeString(h2, 8, <<"W", "A", "V", "E">>)
        h4  == writeString(h3, 12, <<"f", "m", "t", " ">>)
        h5  == setUint32(h4, 16, 16)
        h6  == setUint16(h5, 20, 1)
        h7  == setUint16(h6, 22, channels)
        h8  == setUint32(h7, 24, sampleRate)
        h9  == setUint32(h8, 28, ByteRateOf(sampleRate, channels, bitDepth))
        h10 == setUint16(h9, 32, channels * (bitDepth \div 8))
        h11 == setUint16(h10, 34, bitDepth)
        h12 == writeString(h11, 36, <<"d", "a", "t", "a">>)
    IN  setUint32(h12, 40, totalLength)

\* lines 110-114: the binary string is built from slices of SliceSize bytes
RECURSIVE BinaryFrom(_, _)
BinaryFrom(wavFile, i) ==
    IF ~(i < Len(wavFile)) THEN <<>>
    ELSE LET end == IF i + SliceSize < Len(wavFile) THEN i + SliceSize ELSE Len(wavFile)
         IN  SubSeq(wavFile, i + 1, end) \o BinaryFrom(wavFile, end)

DataUriPrefix == "data:audio/wav;base64,"

\* lines 71-118
combineBase64Chunks(chunks, sampleRate) ==
    LET arrays == [k \in 1..Len(chunks) |-> base64ToUint8Array(chunks[k])]
        merged == MergeUpTo(arrays, Len(arrays))
        totalLength == Len(merged)
        wavFile == WavHeader(totalLength, sampleRate) \o merged
    IN  <<DataUriPrefix>> \o Btoa(BinaryFrom(wavFile, 0))

PcmArrays == SeqsUpTo(ByteSamples, MaxChunkBytes)
PcmLists == SeqsUpTo(PcmArrays, MaxChunks)

\* a PCM array that makes the file two bytes longer than one slice
LongPcm == [k \in 1..(SliceSize - HeaderSize + 2) |-> IF k % 2 = 0 THEN 255 ELSE 0]

WavStart ==
    /\ wPcm \in PcmLists \cup {<<LongPcm>>}
    /\ wChunks = [k \in 1..Len(wPcm) |-> Btoa(wPcm[k])]
    /\ wRate \in SampleRates
    /\ wPc = "start"
    /\ wOut = EmptyString

\* the call of combineBase64Chunks
WavCombine ==
    /\ wPc = "start"
    /\ wOut' = combineBase64Chunks(wChunks, wRate)
    /\ wPc' = "done"
    /\ UNCHANGED <<wPcm, wChunks, wRate>>
    /\ UNCHANGED wavRest

WavNext == WavCombine

WavIdle ==
    /\ wPcm = <<>>
    /\ wChunks = <<>>
    /\ wRate = 0
    /\ wPc = "idle"
    /\ wOut = EmptyString

\* ------------------------------------------------------------------------
\* Specifications
\* ------------------------------------------------------------------------
ExtraIdle == CredentialIdle /\ MediaIdle /\ WavIdle

RetryInit == RetryStart /\ StrategyIdle /\ VideoIdle /\ ExtraIdle
SpecRetry == RetryInit /\ [][RetryNext]_vars

StrategyInit == RetryIdle /\ StrategyStart /\ VideoIdle /\ ExtraIdle
SpecStrategy == StrategyInit /\ [][StrategyNext]_vars

VideoInit == RetryIdle /\ StrategyIdle /\ VideoStart /\ ExtraIdle
SpecVideo == VideoInit /\ [][VideoNext]_vars

CredentialInit == RetryIdle /\ StrategyIdle /\ VideoIdle /\ CredentialStart /\ MediaIdle /\ WavIdle
SpecCredential == CredentialInit /\ [][CredentialNext]_vars

MediaInit == RetryIdle /\ StrategyIdle /\ VideoIdle /\ CredentialIdle /\ MediaStart /\ WavIdle
SpecMedia == MediaInit /\ [][MediaNext]_vars

WavInit == RetryIdle /\ StrategyIdle /\ VideoIdle /\ CredentialIdle /\ MediaIdle /\ WavStart
SpecWav == WavInit /\ [][WavNext]_vars

\* ------------------------------------------------------------------------
\* Properties
\* ------------------------------------------------------------------------

\* the operation of claim C1: two transient failures, then success
FailsTwiceThenSucceeds ==
    /\ Len(rScript) >= 3
    /\ rScript[1] \in TransientSamples
    /\ rScript[2] \in TransientSamples
    /\ rScript[3] = Ok

\* C1: with maxRetries = 3 and baseDelay = 2000, an operation that fails twice
\* with a transient error and then succeeds is invoked exactly 3 times, the
\* waits between the invocations are 2000 ms then 4000 ms, and the call returns
\* the operation's value.
C1_RetryTwiceThenSuccess ==
    (rMaxRetries = DefaultMaxRetries /\ rBaseDelay = DefaultBaseDelay /\ FailsTwiceThenSucceeds)
    => /\ rCalls <= 3
       /\ rOutcome.kind # "thrown"
       /\ rPc = "wait" => rWaits = SubSeq(<<2000, 4000>>, 1, rCalls)
       /\ rPc = "done" => /\ rCalls = 3
                          /\ rWaits = <<2000, 4000>>
                          /\ rOutcome = Returned(SuccessValue)

C1_Witness ==
    /\ rMaxRetries = DefaultMaxRetries
    /\ rBaseDelay = DefaultBaseDelay
    /\ FailsTwiceThenSucceeds
    /\ rPc = "done"
    /\ rCalls = 3
    /\ rWaits = <<2000, 4000>>

\* C2: when an invocation of the operation fails with a non-transient error,
\* that error is propagated at once: no wait is started after it and the
\* operation is not invoked again.  An operation whose first attempt fails
\* with a non-transient error is invoked exactly once.
C2_PermanentErrorPropagates ==
    \A n \in 1..rCalls :
        (ScriptAt(rScript, n) \in PermanentSamples /\ rPc # "await")
        => /\ rCalls = n
           /\ rPc = "done"
           /\ rOutcome.kind = "thrown"
           /\ rOutcome.error = ScriptAt(rScript, n)
           /\ Len(rWaits) = n - 1

C2_Witness ==
    /\ rPc = "done"
    /\ rCalls = 2
    /\ ScriptAt(rScript, 1) \in TransientSamples
    /\ ScriptAt(rScript, 2) \in PermanentSamples
    /\ rOutcome.kind = "thrown"
    /\ Len(rWaits) = 1

\* the table of claim C3
DocumentedStrategy(tag) ==
    CASE tag = "CHARACTER_REF" -> "processCharacterRef"
      [] tag = "FIRST_LAST_FRAME" -> "processFrameWeaver"
      [] tag = "CUT" -> "processSceneDirector"
      [] tag = "CONTINUE" -> "processStoryContinuator"
      [] tag = "DEFAULT" -> "processDefaultVideoGen"
      [] OTHER -> "processDefaultVideoGen"

\* C3: getGenerationStrategy runs exactly one strategy, the one documented for
\* the node's generationMode (the Default strategy for an absent or unknown
\* tag), and never fails.
C3_DispatchTotal ==
    /\ sResult.kind # "rejected"
    /\ sPc \notin {"idle", "dispatch"}
       => (sRuns = <<DocumentedStrategy(sNode.generationMode)>>)

C3_Witness ==
    /\ sPc = "done"
    /\ sNode.generationMode = UnknownTag
    /\ sRuns = <<"processDefaultVideoGen">>
    /\ sResult.kind = "resolved"

Ran(strategy) == sRuns = <<strategy>>
Done == sPc = "done" /\ sResult.kind = "resolved"
RestoredFrom(image) == <<"restored", image[2]>>

\* C4 as stated: when the node has its own cropped frame, SceneDirector and
\* Default both select it as the image for generation, whatever the inputs.
C4_OwnCropWinsInBoth ==
    (Truthy(sNode.croppedFrame) /\ Done)
    => /\ Ran("processDefaultVideoGen")
          => sResult.value.inputImageForGeneration = sNode.croppedFrame
       /\ Ran("processSceneDirector")
          => sResult.value.inputImageForGeneration
                \in {sNode.croppedFrame, RestoredFrom(sNode.croppedFrame)}

\* the first upstream input exposing a cropped frame or an image
FirstUpstreamImage ==
    IF \E k \in 1..Len(sInputs) : HasImageOrCrop(sInputs[k])
    THEN LET k == CHOOSE j \in 1..Len(sInputs) :
                     /\ HasImageOrCrop(sInputs[j])
                     /\ \A h \in 1..(j - 1) : ~HasImageOrCrop(sInputs[h])
         IN  IF HasCrop(sInputs[k]) THEN sInputs[k].croppedFrame ELSE sInputs[k].image
    ELSE None

\* C4 (amended): when the node has its own cropped frame, SceneDirector selects
\* it (it is the image handed to restoration, and the result carries it or its
\* restored version) whatever the inputs; Default never reads the node's own
\* cropped frame and selects the first upstream input's cropped frame or image,
\* null when there is none.
C4_OwnCropWinsInSceneDirector ==
    /\ (Truthy(sNode.croppedFrame) /\ Ran("processSceneDirector")
        /\ sPc \in {"scene_restore", "done"})
       => /\ \E c \in 1..Len(sCalls) :
                /\ sCalls[c].fn = "generateImageFromText"
                /\ sCalls[c].arg = sNode.croppedFrame
          /\ sLoc.image \in {sNode.croppedFrame, RestoredFrom(sNode.croppedFrame)}
          /\ Done => sResult.value.inputImageForGeneration = sLoc.image
    /\ (Ran("processDefaultVideoGen") /\ Done)
       => sResult.value.inputImageForGeneration = FirstUpstreamImage

C4_Witness ==
    /\ Truthy(sNode.croppedFrame)
    /\ Ran("processSceneDirector")
    /\ Done
    /\ \E k \in 1..Len(sInputs) : HasCrop(sInputs[k]) /\ HasImage(sInputs[k])
    /\ sResult.value.inputImageForGeneration = sNode.croppedFrame

UpstreamImageCount == Cardinality({k \in 1..Len(sInputs) : HasImageOrCrop(sInputs[k])})
Called(fn) == \E c \in 1..Len(sCalls) : sCalls[c].fn = fn

\* C7: FrameWeaver with exactly one upstream image never calls
\* orchestrateVideoPrompt and returns referenceImages of length 1 and the base
\* prompt as finalPrompt.
C7_FrameWeaverOneImage ==
    (Ran("processFrameWeaver") /\ UpstreamImageCount = 1)
    => /\ ~Called("orchestrateVideoPrompt")
       /\ Done => /\ sResult.value.referenceImages.defined
                  /\ Len(sResult.value.referenceImages.images) = 1
                  /\ sResult.value.finalPrompt = sPrompt

C7_Witness ==
    /\ Ran("processFrameWeaver")
    /\ UpstreamImageCount = 1
    /\ Len(sInputs) = 2
    /\ Done
    /\ Len(sResult.value.referenceImages.images) = 1

\* the cropped-frame-or-image of the k-th input
UpstreamImage(k) ==
    IF HasCrop(sInputs[k]) THEN sInputs[k].croppedFrame ELSE sInputs[k].image

BridgingFailed ==
    \E c \in 1..Len(sCalls) :
        /\ sCalls[c].fn = "orchestrateVideoPrompt"
        /\ sCalls[c].out = Fails

\* C8: FrameWeaver with two upstream images whose bridging call fails still
\* returns: finalPrompt is the base prompt, referenceImages holds the two
\* images in input order and the seed image is the first of them.
C8_FrameWeaverBridgingFails ==
    (Ran("processFrameWeaver") /\ UpstreamImageCount = 2 /\ BridgingFailed)
    => /\ Done
       /\ sResult.value.finalPrompt = sPrompt
       /\ \E a, b \in 1..Len(sInputs) :
             /\ a < b
             /\ HasImageOrCrop(sInputs[a])
             /\ HasImageOrCrop(sInputs[b])
             /\ sResult.value.referenceImages = ImageArray(<<UpstreamImage(a), UpstreamImage(b)>>)
             /\ sResult.value.inputImageForGeneration = UpstreamImage(a)

C8_Witness ==
    /\ Ran("processFrameWeaver")
    /\ UpstreamImageCount = 2
    /\ BridgingFailed
    /\ Done
    /\ Len(sResult.value.referenceImages.images) = 2

\* C9: a StrategyResult carries referenceImages only when its generationMode
\* is FIRST_LAST_FRAME; for DEFAULT, CONTINUE, CUT and CHARACTER_REF results
\* it is undefined.
C9_ReferenceImagesOnlyForFrameWeaver ==
    sResult.kind = "resolved"
    => /\ sResult.value.generationMode \in ModeTags
       /\ sResult.value.referenceImages.defined
          <=> sResult.value.generationMode = "FIRST_LAST_FRAME"

C9_Witness ==
    /\ Done
    /\ Ran("processStoryContinuator")
    /\ Truthy(sResult.value.inputImageForGeneration)
    /\ ~sResult.value.referenceImages.defined

FailedCall(fn) ==
    \E c \in 1..Len(sCalls) : sCalls[c].fn = fn /\ sCalls[c].out = Fails
SucceededCall(fn) ==
    \E c \in 1..Len(sCalls) : sCalls[c].fn = fn /\ sCalls[c].out.ok

\* C10: whatever auxiliary calls fail, a strategy returns a result and never
\* throws, and a failed enrichment leaves the prompt or the seed image at the
\* value it had before the call.
C10_BestEffortEnrichment ==
    /\ sResult.kind # "rejected"
    /\ Done
       => /\ (Ran("processStoryContinuator") /\ ~SucceededCall("extractLastFrame"))
             => sResult.value.inputImageForGeneration = None
          /\ (Ran("processFrameWeaver") /\ FailedCall("orchestrateVideoPrompt"))
             => sResult.value.finalPrompt = sPrompt
          /\ (Ran("processSceneDirector") /\ FailedCall("generateImageFromText"))
             => sResult.value.inputImageForGeneration = SceneImage(sNode, sInputs)
          /\ (Ran("processSceneDirector") /\ FailedCall("analyzeVideo"))
             => sResult.value.finalPrompt = sPrompt
          /\ (Ran("processCharacterRef") /\ FailedCall("analyzeVideo"))
             => sResult.value.finalPrompt = sPrompt

\* ---- generateVideo ----
FannedOut == vSlots # <<>>
SlotHasUri(slot) == vSlots[slot].pc = "fulfilled" /\ Truthy(vSlots[slot].value.uri)
UsableCount == Cardinality({slot \in DOMAIN vSlots : SlotHasUri(slot)})
AllSettled == \A slot \in DOMAIN vSlots : vSlots[slot].pc \in {"fulfilled", "rejected"}

\* C5: when k >= 1 of the count fan-out operations yield a usable URI,
\* generateVideo returns exactly k URIs in uris, uri is uris[0],
\* isFallbackImage is false and the still-image fallback is never called.
C5_PartialSuccessJoin ==
    (FannedOut /\ UsableCount >= 1)
    => /\ Len(vSlots) = (IF vCount = 0 THEN 1 ELSE vCount)
       /\ vFallbackCalls = 0
       /\ vPc \in {"fanout", "done"}
       /\ vPc = "done"
          => /\ vOutcome.kind = "returned"
             /\ Len(vOutcome.value.uris) = UsableCount
             /\ vOutcome.value.uri = vOutcome.value.uris[1]
             /\ vOutcome.value.isFallbackImage = FALSE
             /\ \A slot \in DOMAIN vSlots :
                   SlotHasUri(slot)
                   <=> (\E u \in 1..Len(vOutcome.value.uris) :
                           vOutcome.value.uris[u] = vSlots[slot].value.uri \o ApiKey)

C5_Witness ==
    /\ vPc = "done"
    /\ Len(vSlots) = 3
    /\ UsableCount = 1
    /\ \E slot \in DOMAIN vSlots : vSlots[slot].pc = "rejected"
    /\ \E slot \in DOMAIN vSlots : vSlots[slot].pc = "fulfilled" /\ ~SlotHasUri(slot)
    /\ vOutcome.kind = "returned"
    /\ Len(vOutcome.value.uris) = 1

\* the failure of the video generation: the first rejected operation's reason,
\* or "Video generation failed." when every operation completed without a URI
OriginalFailure ==
    IF \E slot \in DOMAIN vSlots : vSlots[slot].pc = "rejected"
    THEN vSlots[CHOOSE slot \in DOMAIN vSlots :
                    /\ vSlots[slot].pc = "rejected"
                    /\ \A t \in 1..(slot - 1) : vSlots[t].pc # "rejected"].reason
    ELSE ErrObject(0, 0, StrVideoFailed, <<>>)

\* C6: when no fan-out operation yields a usable URI, generateImageFromText is
\* called exactly once; if it succeeds the result is its image with
\* isFallbackImage = true, and if it fails generateVideo fails with a message
\* derived from the video generation's failure.  The fallback is never called
\* more than once.
C6_FallbackOnce ==
    /\ vFallbackCalls <= 1
    /\ (FannedOut /\ AllSettled /\ UsableCount = 0 /\ vPc # "fanout")
       => /\ vFallbackCalls = 1
          /\ vPc \in {"fallback", "done"}
          /\ vPc = "done"
             => \/ /\ vOutcome.kind = "returned"
                   /\ vOutcome.value.isFallbackImage = TRUE
                   /\ vOutcome.value.uri = <<"still">>
                \/ /\ vOutcome.kind = "thrown"
                   /\ getErrorMessage(vOutcome.error)
                        = <<"Video generation failed: ">> \o getErrorMessage(OriginalFailure)

C6_Witness ==
    /\ vPc = "done"
    /\ Len(vSlots) = 3
    /\ UsableCount = 0
    /\ vFallbackCalls = 1
    /\ vOutcome.kind = "thrown"
    /\ \E slot \in DOMAIN vSlots : vSlots[slot].pc = "rejected"

\* ---- the join of the fan-out ----
\* the slot a returned uri belongs to (uris are "uri", slot, "&key=", key)
SlotOfUri(uri) == uri[2]

\* C14: generateVideo joins only after every fan-out operation has settled: it
\* never returns, throws or starts the still-image fallback while an operation
\* is pending, in whatever order they complete; the returned uris are in launch
\* order, not in completion order.
C14_JoinAfterAllSettled ==
    /\ (FannedOut /\ (vPc \in {"fallback", "done"} \/ vOutcome # NoOutcome \/ vFallbackCalls > 0))
       => AllSettled
    /\ (FannedOut /\ vPc = "done" /\ vOutcome.kind = "returned")
       => \A a, b \in 1..Len(vOutcome.value.uris) :
             a < b => SlotOfUri(vOutcome.value.uris[a]) < SlotOfUri(vOutcome.value.uris[b])

\* operations completed out of launch order, and the uris are in launch order
C14_Witness ==
    /\ vPc = "done"
    /\ Len(vSlots) = 3
    /\ vOutOfOrder
    /\ vOutcome.kind = "returned"
    /\ Len(vOutcome.value.uris) = 3
    /\ SlotOfUri(vOutcome.value.uris[1]) = 1
    /\ SlotOfUri(vOutcome.value.uris[3]) = 3

\* ---- the retries of a fan-out slot ----
RECURSIVE SubmitsUpTo(_)
SubmitsUpTo(n) == IF n = 0 THEN 0 ELSE SubmitsUpTo(n - 1) + vSlots[n].submits
TotalSubmits == SubmitsUpTo(Len(vSlots))

\* C18: the retry wrapper of a fan-out slot encloses the submission and the
\* polling loop: a transient error raised while polling abandons the accepted
\* operation and, after the backoff, a new generateVideos request is submitted
\* (every iteration of the retry loop has issued its own request); a slot
\* submits at most 3 requests, a call with count = N between N and 3N.
C18_PollErrorResubmits ==
    FannedOut
    => /\ \A slot \in DOMAIN vSlots :
             /\ vSlots[slot].submits >= 1
             /\ vSlots[slot].submits <= DefaultMaxRetries
             /\ vSlots[slot].submits = vSlots[slot].i + 1
             /\ vSlots[slot].abandoned
                => \/ /\ vSlots[slot].pc = "backoff"
                      /\ Len(vSlots[slot].waits) = vSlots[slot].submits
                   \/ /\ vSlots[slot].pc = "submitted"
                      /\ vSlots[slot].submits >= 2
                      /\ Len(vSlots[slot].waits) = vSlots[slot].submits - 1
       /\ TotalSubmits >= EffectiveCount(vCount)
       /\ TotalSubmits <= DefaultMaxRetries * EffectiveCount(vCount)

\* both slots used up their three submissions, the last of slot 2 replacing an
\* operation that was abandoned while it was polled
C18_Witness ==
    /\ vPc = "fanout"
    /\ Len(vSlots) = 2
    /\ vSlots[1].submits = 3
    /\ vSlots[2].submits = 3
    /\ vSlots[2].pc = "submitted"
    /\ vSlots[2].abandoned
    /\ TotalSubmits = 6

\* ---- the style suffix of SceneDirector ----
\* C17: SceneDirector appends a style suffix only if a style analysis was
\* obtained: without an upstream video, or when the materialization or the
\* analysis fails, finalPrompt is the base prompt; with an analysis S it is the
\* base prompt followed by the suffix line carrying S.
C17_StyleSuffixOnlyWithAnalysis ==
    (Done /\ Ran("processSceneDirector"))
    => IF SucceededCall("analyzeVideo")
       THEN \E c \in 1..Len(sCalls) :
               /\ sCalls[c].fn = "analyzeVideo"
               /\ sCalls[c].out.ok
               /\ sResult.value.finalPrompt = ScenePrompt(sPrompt, sCalls[c].out.value)
       ELSE sResult.value.finalPrompt = sPrompt

\* ---- exhaustion of the retries ----
AlwaysTransient == \A k \in 1..Len(rScript) : rScript[k] \in TransientSamples

\* C16: an operation that fails with a transient error on every attempt is invoked
\* exactly maxRetries times with maxRetries - 1 waits between the attempts, none
\* after the last, and the error of the last attempt is the one thrown; whatever
\* the operation does, it is never invoked more than maxRetries times.
C16_Exhaustion ==
    /\ rCalls <= rMaxRetries
    /\ (AlwaysTransient /\ rMaxRetries >= 1 /\ rPc = "done")
       => /\ rCalls = rMaxRetries
          /\ Len(rWaits) = rMaxRetries - 1
          /\ rI = rMaxRetries - 1
          /\ rOutcome = Thrown(ScriptAt(rScript, rMaxRetries))

\* three attempts whose errors differ, so that the last one is told from the first
C16_Witness ==
    /\ AlwaysTransient
    /\ rMaxRetries = 3
    /\ Len(rScript) = 3
    /\ rScript[3] # rScript[1]
    /\ rScript[3] # rScript[2]
    /\ rPc = "done"
    /\ rCalls = 3
    /\ Len(rWaits) = 2
    /\ rOutcome = Thrown(rScript[3])

\* ---- the API key ----

\* C11: without an API key every entry point fails with the missing-credential
\* error of getClient, and no remote call is issued.
C11_NoRemoteCallWithoutKey ==
    ~Truthy(cKey)
    => /\ cRemoteCalls = 0
       /\ cPc \in {"idle", "start", "done"}
       /\ cPc = "done" => cOutcome = Thrown(MissingCredentialError)
\* ---- urlToBase64 and extractLastFrame ----
\* C12: urlToBase64 never propagates a failure: when the fetch, the reading of
\* the body or the FileReader fails, its promise resolves to the empty string.
C12_NeverRejects ==
    /\ uOutcome.kind # "thrown"
    /\ (uPc = "done" /\ uFailed # "none") => uOutcome = Returned(EmptyString)

\* C13: extractLastFrame has removed the video element whenever its promise is
\* settled, whatever callbacks were delivered and in whatever order: after a
\* capture, after a failure of the canvas context or of the drawing, and after
\* a load error.
C13_ReleasedWhenSettled == eOutcome # NoOutcome => eReleased

\* the seek completed and the canvas gave no context; a load error followed
C13_Witness ==
    /\ eOutcome = Thrown(CanvasContextError)
    /\ eDuration = <<5000>>
    /\ eCurrentTime = 4900
    /\ eErrors = 1
    /\ eReleased
\* ---- combineBase64Chunks ----
\* the file that the returned data URI carries
WavFile == Atob(Tail(wOut))
PcmLength == Len(MergeUpTo(wPcm, Len(wPcm)))
Uint32At(bytes, offset) ==
    bytes[offset + 1] + 256 * bytes[offset + 2] + 65536 * bytes[offset + 3]
    + 16777216 * bytes[offset + 4]
Uint16At(bytes, offset) == bytes[offset + 1] + 256 * bytes[offset + 2]

\* C15: for chunks of total length L and sample rate R the file is a 44-byte
\* header followed by the chunks' bytes in input order (44 + L bytes), with
\* ChunkSize = 36 + L, NumChannels = 1, SampleRate = R, ByteRate = 2R,
\* BlockAlign = 2, BitsPerSample = 16, Subchunk2Size = L; one 2-byte chunk at
\* 24000 Hz gives 46 bytes, ChunkSize 38, ByteRate 48000, Subchunk2Size 2.
C15_WavLayout ==
    wPc = "done"
    => /\ wOut[1] = DataUriPrefix
       /\ Len(WavFile) = 44 + PcmLength
       /\ SubSeq(WavFile, 45, 44 + PcmLength) = MergeUpTo(wPcm, Len(wPcm))
       /\ Uint32At(WavFile, 4) = 36 + PcmLength
       /\ Uint16At(WavFile, 22) = 1
       /\ Uint32At(WavFile, 24) = wRate
       /\ Uint32At(WavFile, 28) = 2 * wRate
       /\ Uint16At(WavFile, 32) = 2
       /\ Uint16At(WavFile, 34) = 16
       /\ Uint32At(WavFile, 40) = PcmLength
       /\ (Len(wPcm) = 1 /\ Len(wPcm[1]) = 2 /\ wRate = 24000)
          => /\ Len(WavFile) = 46
             /\ Uint32At(WavFile, 4) = 38
             /\ Uint32At(WavFile, 28) = 48000
             /\ Uint32At(WavFile, 40) = 2

\* two chunks of different content at 24000 Hz, combined
C15_Witness ==
    /\ wPc = "done"
    /\ wPcm = <<(<<0, 255>>), (<<255>>)>>
    /\ wRate = 24000
    /\ Len(WavFile) = 47
    /\ SubSeq(WavFile, 45, 47) = <<0, 255, 255>>
====
